---- MODULE Spec2Model ----
(***************************************************************************)
(* resources/update-emoji.json.py: fetch the emoji metadata, decode every  *)
(* record's `unified` field into literal characters, write the table.      *)
(*                                                                         *)
(* A text is a sequence of one-character strings; a decoded text is a      *)
(* sequence of code points (integers).                                     *)
(***************************************************************************)
EXTENDS Integers, Sequences, FiniteSets, TLC

\* ------------------------------------------------------------------ bounds

\* Most records in one fetched body.
MaxRecords == 2
\* Most leading zeros put in front of a chunk of the decoder's input pool.
MaxPad == 4
\* Most hyphen-separated chunks in an input of the decoder's input pool.
MaxChunks == 2

\* ------------------------------------------------------- program constants

\* The width of the format spec {chunk:0>8}.
PadWidth == 8
\* The digits the unicode_escape codec reads after \U.
EscapeDigits == 8
\* The largest code point the unicode_escape codec accepts (0x10FFFF).
MAX_UNICODE == 1114111

\* -------------------------------------------------------------- characters

LowerDigits ==
    <<"0", "1", "2", "3", "4", "5", "6", "7", "8", "9", "a", "b", "c", "d", "e", "f">>
UpperDigits ==
    <<"0", "1", "2", "3", "4", "5", "6", "7", "8", "9", "A", "B", "C", "D", "E", "F">>

IsHexDigit(c) ==
    \E i \in 1..16 : LowerDigits[i] = c \/ UpperDigits[i] = c

\* The value of a hexadecimal digit, either letter case.
HexVal(c) ==
    (CHOOSE i \in 1..16 : LowerDigits[i] = c \/ UpperDigits[i] = c) - 1

\* Characters outside ASCII that the input pool uses.
NonAscii == {"é"}

\* ord() of the ASCII characters the input pool and the escapes use.
Ord(c) ==
    CASE c = "-" -> 45
      [] c = "U" -> 85
      [] c = "Z" -> 90
      [] c = "\\" -> 92
      [] \E i \in 1..10 : LowerDigits[i] = c -> 48 + HexVal(c)
      [] \E i \in 11..16 : UpperDigits[i] = c -> 65 + (HexVal(c) - 10)
      [] \E i \in 11..16 : LowerDigits[i] = c -> 97 + (HexVal(c) - 10)

\* ---------------------------------------------------- unified_to_unicode

\* str.split("-"): the pieces between hyphens, empty pieces kept.
RECURSIVE SplitFrom(_, _, _)
SplitFrom(s, i, cur) ==
    IF i > Len(s) THEN <<cur>>
    ELSE IF s[i] = "-" THEN <<cur>> \o SplitFrom(s, i + 1, <<>>)
    ELSE SplitFrom(s, i + 1, Append(cur, s[i]))

split(s) == SplitFrom(s, 1, <<>>)

\* A mutant of PadLeft: the fill goes to the right ({chunk:0<8}).
PadLeft_fillRight(chunk) ==
    IF Len(chunk) >= PadWidth THEN chunk
    ELSE chunk \o [i \in 1..(PadWidth - Len(chunk)) |-> "0"]

\* {chunk:0>8}: right-aligned in a field of 8, filled with "0"; a chunk of 8
\* characters or more is left as it is.
PadLeft(chunk) ==
    IF Len(chunk) >= PadWidth THEN chunk
    ELSE [i \in 1..(PadWidth - Len(chunk)) |-> "0"] \o chunk

\* "".join(rf"\U{chunk:0>8}" for chunk in unified.split("-"))
RECURSIVE JoinEscapes(_)
JoinEscapes(chunks) ==
    IF chunks = <<>> THEN <<>>
    ELSE <<"\\", "U">> \o PadLeft(Head(chunks)) \o JoinEscapes(Tail(chunks))

Escaped(unified) == JoinEscapes(split(unified))

Returned(text) == [ok |-> TRUE, text |-> text, error |-> "none"]
Raised(exc) == [ok |-> FALSE, text |-> <<>>, error |-> exc]

\* The eight digits after \U folded into a code point, as the codec does
\* (ch = (ch << 4) + digit).  Eight digits never wrap 32 bits and the codec
\* only compares a value above MAX_UNICODE with MAX_UNICODE, so the fold
\* stops growing at MAX_UNICODE + 1.
RECURSIVE FoldHex(_, _)
FoldHex(digits, ch) ==
    IF digits = <<>> THEN ch
    ELSE FoldHex(Tail(digits),
                 IF ch > MAX_UNICODE THEN ch ELSE ch * 16 + HexVal(Head(digits)))

\* bytes.decode("unicode_escape"), strict errors.  A \U takes exactly eight
\* hexadecimal digits; every other character stands for itself.  The input
\* pool has no backslash, so \U is the only escape that occurs; a backslash
\* before a character that starts no escape is kept.
RECURSIVE DecodeEscapes(_, _, _)
DecodeEscapes(s, i, acc) ==
    IF i > Len(s) THEN Returned(acc)
    ELSE IF s[i] # "\\" THEN DecodeEscapes(s, i + 1, Append(acc, Ord(s[i])))
    ELSE IF i = Len(s) THEN Raised("UnicodeDecodeError")
    ELSE IF s[i + 1] # "U" THEN DecodeEscapes(s, i + 1, Append(acc, Ord(s[i])))
    ELSE IF \/ i + 1 + EscapeDigits > Len(s)
            \/ \E k \in (i + 2)..(i + 1 + EscapeDigits) : ~IsHexDigit(s[k])
         THEN Raised("UnicodeDecodeError")
    ELSE LET ch == FoldHex(SubSeq(s, i + 2, i + 1 + EscapeDigits), 0)
         IN  IF ch > MAX_UNICODE THEN Raised("UnicodeDecodeError")
             ELSE DecodeEscapes(s, i + 2 + EscapeDigits, Append(acc, ch))

\* .encode("ascii").decode("unicode_escape")
unified_to_unicode(unified) ==
    LET s == Escaped(unified)
    IN  IF \E i \in 1..Len(s) : s[i] \in NonAscii
        THEN Raised("UnicodeEncodeError")
        ELSE DecodeEscapes(s, 1, <<>>)

\* ----------------------------------------------- the decoder, on its own

\* The texts a chunk of the input pool is made of, before leading zeros:
\* "", "23", "fe0f", "1F600", "D800" (a surrogate), "110000" (above
\* MAX_UNICODE), "ZZZZ" (not hexadecimal), "é" (not ASCII).
ChunkBodies ==
    { <<>>,
      <<"2", "3">>,
      <<"f", "e", "0", "f">>,
      <<"1", "F", "6", "0", "0">>,
      <<"D", "8", "0", "0">>,
      <<"1", "1", "0", "0", "0", "0">>,
      <<"Z", "Z", "Z", "Z">>,
      <<"é">> }

Zeros(n) == [i \in 1..n |-> "0"]

ChunkPool == { Zeros(z) \o b : z \in 0..MaxPad, b \in ChunkBodies }

\* "-".join(chunks)
RECURSIVE JoinHyphen(_)
JoinHyphen(chunks) ==
    IF Len(chunks) = 1 THEN chunks[1]
    ELSE chunks[1] \o <<"-">> \o JoinHyphen(Tail(chunks))

UnifiedInputs ==
    { JoinHyphen(cs) : cs \in UNION { [1..n -> ChunkPool] : n \in 1..MaxChunks } }

\* ------------------------------------------------------- the fetched body

Names == {"grinning", "hash"}

\* The `unified` values of the fetched records: "1F600", "0023-FE0F", "D800",
\* "110000", "ZZZZ", "00001F600" (nine digits), "00000041ZZ".
RunUnified ==
    { <<"1", "F", "6", "0", "0">>,
      <<"0", "0", "2", "3", "-", "F", "E", "0", "F">>,
      <<"D", "8", "0", "0">>,
      <<"1", "1", "0", "0", "0", "0">>,
      <<"Z", "Z", "Z", "Z">>,
      <<"0", "0", "0", "0", "1", "F", "6", "0", "0">>,
      <<"0", "0", "0", "0", "0", "0", "4", "1", "Z", "Z">> }

\* A record is a function on the fields it has.
RecordPool ==
    [short_name : Names, unified : RunUnified]
        \cup { [unified |-> <<"1", "F", "6", "0", "0">>] }
        \cup { [short_name |-> "grinning"] }

JsonBodies == UNION { [1..n -> RecordPool] : n \in 0..MaxRecords }

StatusCodes == {200, 404}

\* What requests.get can return: a status and a body that is a JSON array of
\* records or is not JSON at all.
Responses ==
    [status : StatusCodes, json_ok : {TRUE}, records : JsonBodies]
        \cup [status : StatusCodes, json_ok : {FALSE}, records : {<<>>}]

NoResponse == [status |-> 0, json_ok |-> FALSE, records |-> <<>>]

\* ---------------------------------------------------------------- the file

Chunk(kind, key, val) == [kind |-> kind, key |-> key, val |-> val]

Absent == [exists |-> FALSE, text |-> <<>>]

\* What an earlier run left: {"old": "x"}.
OldFile ==
    [exists |-> TRUE,
     text |-> << Chunk("{", "", <<>>), Chunk("key", "old", <<>>), Chunk(": ", "", <<>>),
                 Chunk("str", "", <<120>>), Chunk("}", "", <<>>) >>]

\* json.dump's chunks for a dict of strings, in the dict's order: "{", then
\* for each item the key, ": " and the value, ", " between items, "}"; an
\* empty dict is the single chunk "{}".
RECURSIVE ItemChunks(_, _)
ItemChunks(d, i) ==
    IF i > Len(d) THEN <<>>
    ELSE (IF i = 1 THEN <<>> ELSE << Chunk(", ", "", <<>>) >>)
         \o << Chunk("key", d[i].key, <<>>), Chunk(": ", "", <<>>),
               Chunk("str", "", d[i].value) >>
         \o ItemChunks(d, i + 1)

Serialize(d) ==
    IF d = <<>> THEN << Chunk("{}", "", <<>>) >>
    ELSE << Chunk("{", "", <<>>) >> \o ItemChunks(d, 1) \o << Chunk("}", "", <<>>) >>

IsSurrogate(cp) == cp >= 55296 /\ cp <= 57343

\* The file's text encoder (UTF-8, strict) refuses a lone surrogate.
Encodable(chunk) == \A i \in 1..Len(chunk.val) : ~IsSurrogate(chunk.val[i])

\* ------------------------------------------------------------------- state

VARIABLES
    pc,         \* where the script is: get, json, build, dump, done, failed
    requests,   \* the HTTP GETs issued
    response,   \* what requests.get returned
    parsed,     \* `data` is bound
    data,       \* the parsed body
    idx,        \* the record the comprehension is at (1-based)
    emojis,     \* the table: a dict in insertion order, <<[key, value], ...>>
    opened,     \* how many times emoji.json was opened for writing
    file,       \* emoji.json
    file0,      \* emoji.json before the run
    error,      \* the exception that ended the run
    dpc,        \* the decoder on its own: call, return
    unified,    \* its argument
    result      \* what it returned or raised

run_vars == <<pc, requests, response, parsed, data, idx, emojis, opened, file, file0, error>>
dec_vars == <<dpc, unified, result>>
vars == <<run_vars, dec_vars>>

RunInit ==
    /\ pc = "get"
    /\ requests = 0
    /\ response = NoResponse
    /\ parsed = FALSE
    /\ data = <<>>
    /\ idx = 1
    /\ emojis = <<>>
    /\ opened = 0
    /\ file0 \in {Absent, OldFile}
    /\ file = file0
    /\ error = "none"

Init ==
    /\ RunInit
    /\ dpc = "idle"
    /\ unified = <<>>
    /\ result = Raised("none")

\* A mutant of AfterFetchError: one more try after the first failure.
AfterFetchError_retry(attempts) == IF attempts < 2 THEN "get" ELSE "failed"

\* No try/except surrounds the fetch: an exception ends the script.
AfterFetchError(attempts) == "failed"

\* requests.get(URL): one GET; a connection failure raises.
HttpGet ==
    /\ pc = "get"
    /\ requests' = requests + 1
    /\ \/ /\ pc' = AfterFetchError(requests')
          /\ error' = "ConnectionError"
          /\ UNCHANGED response
       \/ /\ \E r \in Responses : response' = r
          /\ pc' = "json"
          /\ UNCHANGED error
    /\ UNCHANGED <<parsed, data, idx, emojis, opened, file, file0, dec_vars>>

\* .json(): parses the body whatever the status; a body that is not JSON raises.
ParseJson ==
    /\ pc = "json"
    /\ IF response.json_ok
       THEN /\ data' = response.records
            /\ parsed' = TRUE
            /\ pc' = "build"
            /\ UNCHANGED error
       ELSE /\ pc' = AfterFetchError(requests)
            /\ error' = "JSONDecodeError"
            /\ UNCHANGED <<data, parsed>>
    /\ UNCHANGED <<requests, response, idx, emojis, opened, file, file0, dec_vars>>

KeyIndex(d, k) == { i \in 1..Len(d) : d[i].key = k }

\* A mutant of DictSet: a key already there keeps its value.
DictSet_keepFirst(d, k, v) ==
    IF KeyIndex(d, k) # {} THEN d ELSE Append(d, [key |-> k, value |-> v])

\* The comprehension's store d[k] = v: a key already there keeps its place
\* and takes the new value.
DictSet(d, k, v) ==
    IF KeyIndex(d, k) # {}
    THEN [i \in 1..Len(d) |-> IF d[i].key = k THEN [key |-> k, value |-> v] ELSE d[i]]
    ELSE Append(d, [key |-> k, value |-> v])

\* A mutant of ComprehensionExhausted: the last record is left out.
ComprehensionExhausted_early(i, d) == i >= Len(d)

\* `for emoji in data` has no record left.
ComprehensionExhausted(i, d) == i > Len(d)

\* One turn of the comprehension: emoji["short_name"], emoji["unified"],
\* unified_to_unicode, the store.
Transform ==
    /\ pc = "build"
    /\ ~ComprehensionExhausted(idx, data)
    /\ LET emoji == data[idx]
       IN  IF "short_name" \notin DOMAIN emoji \/ "unified" \notin DOMAIN emoji
           THEN /\ pc' = "failed"
                /\ error' = "KeyError"
                /\ UNCHANGED <<idx, emojis>>
           ELSE LET r == unified_to_unicode(emoji.unified)
                IN  IF r.ok
                    THEN /\ emojis' = DictSet(emojis, emoji.short_name, r.text)
                         /\ idx' = idx + 1
                         /\ UNCHANGED <<pc, error>>
                    ELSE /\ pc' = "failed"
                         /\ error' = r.error
                         /\ UNCHANGED <<idx, emojis>>
    /\ UNCHANGED <<requests, response, parsed, data, opened, file, file0, dec_vars>>

\* open("emoji.json", "w"): creates or truncates the file, or raises.
Open ==
    /\ pc = "build"
    /\ ComprehensionExhausted(idx, data)
    /\ \/ /\ pc' = "failed"
          /\ error' = "OSError"
          /\ UNCHANGED <<opened, file>>
       \/ /\ opened' = opened + 1
          /\ file' = [exists |-> TRUE, text |-> <<>>]
          /\ pc' = "dump"
          /\ UNCHANGED error
    /\ UNCHANGED <<requests, response, parsed, data, idx, emojis, file0, dec_vars>>

\* json.dump's next fp.write(chunk): the chunk is encoded and written, or the
\* encoder or the file system raises and what was written stays.
WriteChunk ==
    /\ pc = "dump"
    /\ Len(file.text) < Len(Serialize(emojis))
    /\ LET chunk == Serialize(emojis)[Len(file.text) + 1]
       IN  \/ /\ Encodable(chunk)
              /\ file' = [file EXCEPT !.text = Append(@, chunk)]
              /\ UNCHANGED <<pc, error>>
           \/ /\ ~Encodable(chunk)
              /\ pc' = "failed"
              /\ error' = "UnicodeEncodeError"
              /\ UNCHANGED file
           \/ /\ pc' = "failed"
              /\ error' = "OSError"
              /\ UNCHANGED file
    /\ UNCHANGED <<requests, response, parsed, data, idx, emojis, opened, file0, dec_vars>>

\* The with block ends: the file is closed and the script is over.
Close ==
    /\ pc = "dump"
    /\ Len(file.text) = Len(Serialize(emojis))
    /\ pc' = "done"
    /\ UNCHANGED <<requests, response, parsed, data, idx, emojis, opened, file, file0,
                   error, dec_vars>>

Next == HttpGet \/ ParseJson \/ Transform \/ Open \/ WriteChunk \/ Close

Spec == Init /\ [][Next]_vars

\* The decoder applied to every input of the pool.
DecodeInit ==
    /\ RunInit
    /\ file0 = Absent
    /\ dpc = "call"
    /\ unified \in UnifiedInputs
    /\ result = Raised("none")

DecodeCall ==
    /\ dpc = "call"
    /\ result' = unified_to_unicode(unified)
    /\ dpc' = "return"
    /\ UNCHANGED <<unified, run_vars>>

DecodeNext == DecodeCall

DecodeSpec == DecodeInit /\ [][DecodeNext]_vars

\* ------------------------------------------------ what the claims speak of

\* A chunk that is a hexadecimal string: one digit or more, digits only.
IsHexChunk(c) == Len(c) >= 1 /\ \A i \in 1..Len(c) : IsHexDigit(c[i])

\* A chunk without its leading zeros.
RECURSIVE Significant(_)
Significant(c) ==
    IF c # <<>> /\ Head(c) = "0" THEN Significant(Tail(c)) ELSE c

\* The number a string of at most six hexadecimal digits denotes.
RECURSIVE HexNumber(_)
HexNumber(c) ==
    IF c = <<>> THEN 0
    ELSE 16 * HexNumber(SubSeq(c, 1, Len(c) - 1)) + HexVal(c[Len(c)])

\* The number a hexadecimal chunk denotes is above MAX_UNICODE.
AboveUnicode(c) ==
    Len(Significant(c)) > 6 \/ HexNumber(Significant(c)) > MAX_UNICODE

\* A chunk of 1 to 8 hexadecimal digits that denotes a Unicode scalar value.
IsScalarChunk(c) ==
    /\ IsHexChunk(c)
    /\ Len(c) <= 8
    /\ ~AboveUnicode(c)
    /\ ~IsSurrogate(HexNumber(Significant(c)))

\* The code points the chunks of a hyphen-joined hexadecimal text denote.
ChunkValues(u) == [i \in 1..Len(split(u)) |-> HexNumber(Significant(split(u)[i]))]

\* The items of a written file, read back: every key with its value.
RECURSIVE FileItems(_, _)
FileItems(text, i) ==
    IF i > Len(text) THEN <<>>
    ELSE IF text[i].kind = "key" /\ i + 2 <= Len(text)
         THEN << [key |-> text[i].key, value |-> text[i + 2].val] >> \o FileItems(text, i + 3)
         ELSE FileItems(text, i + 1)

\* A record the table builder cannot take: a field is missing or a chunk of
\* `unified` is no hexadecimal string.
BadRecord(rec) ==
    \/ "short_name" \notin DOMAIN rec
    \/ "unified" \notin DOMAIN rec
    \/ \E i \in 1..Len(split(rec.unified)) : ~IsHexChunk(split(rec.unified)[i])

IsSuccess(status) == status >= 200 /\ status < 300

Terminated == pc \in {"done", "failed"}

\* ------------------------------------------------------------------ claims

\* C1: a run that aborts leaves emoji.json as it was before the run (absent
\* or unchanged), never truncated or partly written.
C1_AbortLeavesFile == pc = "failed" => file = file0

\* C2: when a fetched record lacks a field or has a `unified` that is not
\* hexadecimal, the run fails and the output file is never opened or changed.
C2_BadRecordFailsRun ==
    (parsed /\ \E i \in 1..Len(data) : BadRecord(data[i]))
        => pc # "done" /\ opened = 0 /\ file = file0

\* C3: after a response with a non-success status the run ends with a fetch
\* error: no record is transformed and the output file is not written,
\* whatever the body.
C3_BadStatusStops ==
    (response # NoResponse /\ ~IsSuccess(response.status))
        => /\ idx = 1 /\ emojis = <<>>
           /\ opened = 0 /\ file = file0
           /\ pc # "done"

\* C4: unified_to_unicode raises when a chunk has more than 8 hexadecimal
\* digits; it returns no text for such an input.
C4_LongChunkRaises ==
    (/\ dpc = "return"
     /\ \E i \in 1..Len(split(unified)) :
            IsHexChunk(split(unified)[i]) /\ Len(split(unified)[i]) > 8)
        => ~result.ok

\* C5: unified_to_unicode raises when a chunk of 1 to 8 hexadecimal digits
\* denotes a value above 0x10FFFF or a surrogate (0xD800..0xDFFF).
C5_OutOfRangeRaises ==
    (/\ dpc = "return"
     /\ \E i \in 1..Len(split(unified)) :
            LET c == split(unified)[i]
            IN  /\ IsHexChunk(c) /\ Len(c) <= 8
                /\ (AboveUnicode(c) \/ IsSurrogate(HexNumber(Significant(c)))))
        => ~result.ok

\* C6: for an input of n >= 1 chunks, each 1 to 8 hexadecimal digits (either
\* case) denoting a Unicode scalar value, unified_to_unicode returns n
\* characters, the i-th being the code point the i-th chunk denotes
\* ("1F600" gives U+1F600).
C6_DecodesValidChunks ==
    /\ (/\ dpc = "return"
        /\ \A i \in 1..Len(split(unified)) : IsScalarChunk(split(unified)[i]))
           => /\ result.ok
              /\ Len(result.text) = Len(split(unified))
              /\ result.text = ChunkValues(unified)
    /\ (dpc = "return" /\ unified = <<"1", "F", "6", "0", "0">>)
           => result = Returned(<<128512>>)

\* "0023-fe0f" was decoded to U+0023 U+FE0F.
C6_Witness ==
    /\ dpc = "return"
    /\ unified = <<"0", "0", "2", "3", "-", "f", "e", "0", "f">>
    /\ result = Returned(<<35, 65039>>)

\* C7: records are taken in input order and the last one wins: a short_name
\* seen so far has exactly one entry, holding the decoding of the `unified`
\* of the last record seen with that name; a repeated name is never what
\* fails the build; the file of a finished run holds that table.
C7_LastWriteWins ==
    /\ \A name \in Names :
          LET occ == { i \in 1..(idx - 1) : data[i].short_name = name }
              last == CHOOSE i \in occ : \A j \in occ : j <= i
          IN  IF occ = {} THEN KeyIndex(emojis, name) = {}
              ELSE /\ Cardinality(KeyIndex(emojis, name)) = 1
                   /\ \A k \in KeyIndex(emojis, name) :
                          emojis[k].value = unified_to_unicode(data[last].unified).text
    /\ (pc = "failed" /\ parsed /\ opened = 0 /\ error # "OSError")
           => \/ "short_name" \notin DOMAIN data[idx]
              \/ "unified" \notin DOMAIN data[idx]
              \/ ~unified_to_unicode(data[idx].unified).ok
    /\ pc = "done" => FileItems(file.text, 1) = emojis

\* Two records named "hash", "1F600" then "0023-FE0F": the file of the
\* finished run holds the later one only.
C7_Witness ==
    /\ pc = "done"
    /\ Len(data) = 2
    /\ data[1] = [short_name |-> "hash", unified |-> <<"1", "F", "6", "0", "0">>]
    /\ data[2] = [short_name |-> "hash",
                  unified |-> <<"0", "0", "2", "3", "-", "F", "E", "0", "F">>]
    /\ FileItems(file.text, 1) = << [key |-> "hash", value |-> <<35, 65039>>] >>

\* C8: after a successful run the written keys are exactly the short_name
\* values of the fetched records, and every value is the code points that the
\* hexadecimal chunks of the `unified` of a record with that key denote.
C8_FileIsImage ==
    pc = "done" =>
        LET items == FileItems(file.text, 1)
        IN  /\ { items[k].key : k \in 1..Len(items) }
                   = { data[i].short_name : i \in 1..Len(data) }
            /\ \A k \in 1..Len(items) :
                   \E i \in 1..Len(data) :
                       /\ data[i].short_name = items[k].key
                       /\ \A j \in 1..Len(split(data[i].unified)) :
                              IsHexChunk(split(data[i].unified)[j])
                       /\ items[k].value = ChunkValues(data[i].unified)

\* C9: the phases are ordered: a record is transformed only after the one
\* fetch has returned and its body is parsed; the file is opened, once at
\* most, only after every record is transformed and the table is complete.
C9_PhasesOrdered ==
    /\ (idx > 1 \/ emojis # <<>>) => (parsed /\ requests = 1 /\ response # NoResponse)
    /\ (opened > 0 \/ file # file0)
           => /\ parsed
              /\ idx = Len(data) + 1
              /\ { emojis[k].key : k \in 1..Len(emojis) }
                     = { data[i].short_name : i \in 1..Len(data) }
    /\ opened <= 1
    /\ pc \in {"dump", "done"} => opened = 1

\* A finished run of two records: both transformed, the file opened once.
C9_Witness ==
    /\ pc = "done"
    /\ Len(data) = 2
    /\ idx = 3
    /\ opened = 1
    /\ Len(emojis) = 2

\* C10: a run issues one HTTP GET and never a second: in every terminal
\* state, after a fetch failure or any later one, the count is 1.
C10_OneRequest ==
    /\ requests <= 1
    /\ Terminated => requests = 1

\* The body was not JSON: the run ended after its one request.
C10_Witness ==
    /\ pc = "failed"
    /\ error = "JSONDecodeError"
    /\ requests = 1

====
